---- MODULE Spec2Model ----
(***************************************************************************)
(* Model of pyqt_segmentation_annotator.py: the AnnotationCanvas           *)
(* (QGraphicsView subclass) and the MainWindow dataset controller.         *)
(*                                                                         *)
(* Strings are sequences of one-character strings, so that strip, split,   *)
(* splitext and sorted are computed character by character.  Python floats *)
(* are IEEE-754 doubles [m, e] with value m * 2^e, the 53-bit mantissa m   *)
(* held as four base-2^14 limbs (least significant first).                 *)
(***************************************************************************)
EXTENDS Integers, Sequences, FiniteSets, TLC

(* ------------------------------ bounds --------------------------------- *)
\* Spec, the whole program: longest point list, most path elements, most
\* wheel events since a load
MaxPts == 2
MaxPath == 3
MaxZoom == 1
\* Spec: most files in the dataset directory
MaxFiles == 2
\* SpecCanvas, the canvas alone
ZoomMaxPts == 2
ZoomMaxPath == 2
ZoomMaxZoom == 3
MaskMaxPts == 4
MaskMaxPath == 5
CanvasMaxPts == 3
CanvasMaxPath == 5
CanvasMaxZoom == 1

(* --------------------------- IEEE-754 doubles --------------------------- *)
LimbBase == 16384

RECURSIVE Pow2(_)
Pow2(n) == IF n = 0 THEN 1 ELSE 2 * Pow2(n - 1)

\* the literals 1.0 and 2, 1.25 and 0.8 as doubles
F_One == [m |-> <<0, 0, 0, 1024>>, e |-> -52]
F_Two == [m |-> <<0, 0, 0, 1024>>, e |-> -51]
zoom_in_factor == [m |-> <<0, 0, 0, 1280>>, e |-> -52]
\* mutant: the wheel zooms out by 0.75
zoom_out_factor_ThreeQuarters == [m |-> <<0, 0, 0, 1536>>, e |-> -53]
zoom_out_factor == [m |-> <<6554, 9830, 6553, 1638>>, e |-> -53]

\* limb k (0-based) of the exact product of two 4-limb mantissas, before carries
MulColumn(a, b, k) ==
    LET Idx == {i \in 0..3 : k - i \in 0..3}
        Term(i) == a[i + 1] * b[k - i + 1]
        RECURSIVE Sum(_)
        Sum(S) == IF S = {} THEN 0
                  ELSE LET i == CHOOSE x \in S : TRUE IN Term(i) + Sum(S \ {i})
    IN Sum(Idx)

\* the 8 limbs of the exact 106-bit product
MulLimbs(a, b) ==
    LET RECURSIVE Go(_, _)
        Go(k, carry) ==
            IF k = 8 THEN <<>>
            ELSE LET v == (IF k <= 6 THEN MulColumn(a, b, k) ELSE 0) + carry
                 IN <<v % LimbBase>> \o Go(k + 1, v \div LimbBase)
    IN Go(0, 0)

\* mantissa + 1 with the carry run through the limbs; the top limb keeps any overflow
IncLimbs(q) ==
    LET l1 == q[1] + 1
        l2 == q[2] + (l1 \div LimbBase)
        l3 == q[3] + (l2 \div LimbBase)
        l4 == q[4] + (l3 \div LimbBase)
    IN <<l1 % LimbBase, l2 % LimbBase, l3 % LimbBase, l4>>

\* a * b on doubles: exact product rounded to 53 bits, ties to even
FMul(a, b) ==
    LET p == MulLimbs(a.m, b.m)
        r == IF p[8] >= 128 THEN 11 ELSE 10
        lo == p[4] % Pow2(r)
        half == Pow2(r - 1)
        P(i) == IF i <= 8 THEN p[i] ELSE 0
        Q(i) == (P(i + 3) \div Pow2(r)) + (P(i + 4) % Pow2(r)) * Pow2(14 - r)
        q == <<Q(1), Q(2), Q(3), Q(4)>>
        sticky == p[1] # 0 \/ p[2] # 0 \/ p[3] # 0
        up == \/ lo > half
              \/ lo = half /\ sticky
              \/ lo = half /\ ~sticky /\ q[1] % 2 = 1
        q1 == IF up THEN IncLimbs(q) ELSE q
        ex == a.e + b.e + 42 + r
    IN IF q1[4] >= 2048 THEN [m |-> <<0, 0, 0, 1024>>, e |-> ex + 1]
       ELSE [m |-> q1, e |-> ex]


\* x >= y on 4-limb numbers
GeqLimbs(x, y) ==
    \/ x[4] > y[4]
    \/ x[4] = y[4] /\ x[3] > y[3]
    \/ x[4] = y[4] /\ x[3] = y[3] /\ x[2] > y[2]
    \/ x[4] = y[4] /\ x[3] = y[3] /\ x[2] = y[2] /\ x[1] >= y[1]

\* x - y on 4-limb numbers, for x >= y
SubLimbs(x, y) ==
    LET d1 == x[1] - y[1]
        b1 == IF d1 < 0 THEN 1 ELSE 0
        d2 == x[2] - y[2] - b1
        b2 == IF d2 < 0 THEN 1 ELSE 0
        d3 == x[3] - y[3] - b2
        b3 == IF d3 < 0 THEN 1 ELSE 0
    IN <<d1 + b1 * LimbBase, d2 + b2 * LimbBase, d3 + b3 * LimbBase, x[4] - y[4] - b3>>

\* 2 * x + bit on 4-limb numbers; the top limb keeps any overflow
DblLimbs(x, bit) ==
    LET l1 == 2 * x[1] + bit
        l2 == 2 * x[2] + (l1 \div LimbBase)
        l3 == 2 * x[3] + (l2 \div LimbBase)
        l4 == 2 * x[4] + (l3 \div LimbBase)
    IN <<l1 % LimbBase, l2 % LimbBase, l3 % LimbBase, l4>>

\* a / b on doubles: binary long division of the mantissas, rounded to 53
\* bits, ties to even
FDiv(a, b) ==
    LET RECURSIVE Go(_, _)
        \* st = <<remainder, quotient so far>>, n quotient bits still to produce
        Go(st, n) ==
            IF n = 0 THEN st
            ELSE LET r2 == DblLimbs(st[1], 0)
                 IN IF GeqLimbs(r2, b.m)
                    THEN Go(<<SubLimbs(r2, b.m), DblLimbs(st[2], 1)>>, n - 1)
                    ELSE Go(<<r2, DblLimbs(st[2], 0)>>, n - 1)
        big == GeqLimbs(a.m, b.m)
        res == IF big THEN Go(<<SubLimbs(a.m, b.m), <<1, 0, 0, 0>> >>, 52)
               ELSE Go(<<a.m, <<0, 0, 0, 0>> >>, 53)
        r2 == DblLimbs(res[1], 0)
        q == res[2]
        up == IF r2 = b.m THEN q[1] % 2 = 1 ELSE GeqLimbs(r2, b.m)
        q1 == IF up THEN IncLimbs(q) ELSE q
        ex == a.e - b.e - (IF big THEN 52 ELSE 53)
    IN IF q1[4] >= 2048 THEN [m |-> <<0, 0, 0, 1024>>, e |-> ex + 1]
       ELSE [m |-> q1, e |-> ex]

(* ------------------------------ strings --------------------------------- *)
\* the characters the model uses, in code-point order
CharOrder == <<" ", ".", "_", "a", "b", "c", "e", "g", "i", "j", "k", "m", "n", "p", "s">>

Ord(c) == CHOOSE i \in 1..Len(CharOrder) : CharOrder[i] = c

\* Python's < on str: lexicographic by code point, a proper prefix sorts first
RECURSIVE StrLess(_, _)
StrLess(s, t) ==
    IF t = <<>> THEN FALSE
    ELSE IF s = <<>> THEN TRUE
    ELSE IF Head(s) = Head(t) THEN StrLess(Tail(s), Tail(t))
    ELSE Ord(Head(s)) < Ord(Head(t))

Whitespace == {" "}

\* str.strip()
RECURSIVE LStrip(_)
LStrip(s) == IF s # <<>> /\ Head(s) \in Whitespace THEN LStrip(Tail(s)) ELSE s

RECURSIVE RStrip(_)
RStrip(s) == IF s # <<>> /\ s[Len(s)] \in Whitespace
             THEN RStrip(SubSeq(s, 1, Len(s) - 1)) ELSE s

\* mutant: the label is tested untrimmed
Strip_NoTrim(s) == s

Strip(s) == RStrip(LStrip(s))

\* '_' in fname
HasUnderscore(s) == \E i \in 1..Len(s) : s[i] = "_"

\* fname.split('_')[0]
RECURSIVE SplitFirst(_)
SplitFirst(s) == IF s = <<>> \/ Head(s) = "_" THEN <<>>
                 ELSE <<Head(s)>> \o SplitFirst(Tail(s))

\* os.path.splitext(p)[1]: from the last dot of the last path component,
\* unless only dots precede it in that component
SplitExt(p) ==
    LET Dots == {i \in 1..Len(p) : p[i] = "."}
        dot == IF Dots = {} THEN 0 ELSE CHOOSE i \in Dots : \A j \in Dots : j <= i
    IN IF dot # 0 /\ \E k \in 1..(dot - 1) : p[k] # "."
       THEN SubSeq(p, dot, Len(p)) ELSE <<>>

\* sorted(set of str)
RECURSIVE Sorted(_)
Sorted(S) ==
    IF S = {} THEN <<>>
    ELSE LET lo == CHOOSE x \in S : \A y \in S \ {x} : StrLess(x, y)
         IN <<lo>> \o Sorted(S \ {lo})

(* ----------------------------- QPainterPath ----------------------------- *)
\* A path is its element list; QPainterPath() is the empty list.
MoveToElement(p) == [type |-> "MoveTo", pt |-> p]
LineToElement(p) == [type |-> "LineTo", pt |-> p]

\* QPainterPath::ensureData: an element-less path gets an initial MoveTo(0,0)
EnsureData(path) == IF path = <<>> THEN <<MoveToElement(<<0, 0>>)>> ELSE path

\* QPainterPath::moveTo: a trailing MoveTo is overwritten, else one is appended
MoveTo(path, p) ==
    LET d == EnsureData(path)
    IN IF d[Len(d)].type = "MoveTo"
       THEN SubSeq(d, 1, Len(d) - 1) \o <<MoveToElement(p)>>
       ELSE d \o <<MoveToElement(p)>>

\* QPainterPath::lineTo: a line to the current position adds nothing
LineTo(path, p) ==
    LET d == EnsureData(path)
    IN IF d[Len(d)].pt = p THEN d ELSE d \o <<LineToElement(p)>>

\* QPainterPath::isEmpty
IsEmpty(path) == path = <<>> \/ (Len(path) = 1 /\ path[1].type = "MoveTo")

(* ------------------------------- inputs --------------------------------- *)
\* Python's None, where a sequence (a path, a size) is the other value
None == <<>>
\* None as a path item handle
NoItem == 0
\* no dialog shown
NoMessage == ""

\* scene positions mapToScene can deliver
Positions == {<<0, 0>>, <<1, 0>>}

Buttons == {"LeftButton", "RightButton"}

\* event.angleDelta().y()
WheelDeltas == {120, -120}

\* image files the open dialog can return, with the pixel size each decodes to
ImageFiles == {<<"a", ".", "p", "n", "g">>, <<"b", ".", "j", "p", "g">>}

ImageSize(f) == IF f = <<"a", ".", "p", "n", "g">> THEN <<2, 2>> ELSE <<3, 2>>

\* texts the label dialog can return
Names == {<<>>, <<" ">>, <<"c">>, <<"a", "_", "b">>}

(* -------------------------------- state --------------------------------- *)
VARIABLES
    pixmap_item,    \* AnnotationCanvas.pixmap_item / .image: None or the size of the shown pixmap
    drawing,        \* AnnotationCanvas.drawing
    path,           \* AnnotationCanvas.path
    path_item,      \* AnnotationCanvas.path_item: NoItem or the id of a path item
    points,         \* AnnotationCanvas.points
    scale_factor,   \* AnnotationCanvas.scale_factor
    view_scale,     \* scale of the view transform (QGraphicsView.scale / resetTransform)
    scene,          \* the path items in AnnotationCanvas.scene: [id, path, width]
    current_file,   \* MainWindow.current_file
    list_widget,    \* items of MainWindow.list_widget
    dataset,        \* the dataset directory: file name -> content
    message,        \* text of the QMessageBox the latest handler showed, or NoMessage
    event,          \* <<handler that ran last, last line of its body it executed>>
    wheel_count,    \* wheel events since the last load
    running         \* FALSE once the process has died

canvas == <<pixmap_item, drawing, path, path_item, points, scale_factor, view_scale, scene>>
window == <<current_file, list_widget, dataset>>
vars == <<pixmap_item, drawing, path, path_item, points, scale_factor, view_scale, scene,
          current_file, list_widget, dataset, message, event, wheel_count, running>>

(* ------------------------------- the scene ------------------------------ *)
\* QGraphicsScene.removeItem(item): None and an item that is not in the scene
\* only draw a warning
RemoveItem(sc, item) == {it \in sc : it.id # item}

\* id of the item a QGraphicsScene.addPath on sc returns
NewItem(sc) == CHOOSE i \in 1..(Cardinality(sc) + 1) : \A it \in sc : it.id # i

\* QGraphicsScene.addPath(path, pen)
AddPath(sc, p, width) == sc \cup {[id |-> NewItem(sc), path |-> p, width |-> width]}

\* QPen(Qt.red, 2 / self.scale_factor)
PenWidth(s) == FDiv(F_Two, s)

InScene(item) == \E it \in scene : it.id = item

(* -------------------------- MainWindow helpers -------------------------- *)
Str_image == <<"_", "i", "m", "a", "g", "e">>
Str_mask_png == <<"_", "m", "a", "s", "k", ".", "p", "n", "g">>

\* mutant: the listing is not filtered on '_' in fname
update_dataset_list_NoFilter(files) ==
    Sorted({SplitFirst(fname) : fname \in files})

\* MainWindow.update_dataset_list: the new items of list_widget for a listing
update_dataset_list(files) ==
    Sorted({SplitFirst(fname) : fname \in {f \in files : HasUnderscore(f)}})

\* directory d after writing content c to name f
WriteFile(d, f, c) == [g \in DOMAIN d \cup {f} |-> IF g = f THEN c ELSE d[g]]

\* mutant: the mask is created with width and height exchanged
QImage_fill_Transposed(size, v) == [y \in 1..size[1] |-> [x \in 1..size[2] |-> v]]

\* QImage(size, Format_Grayscale8) and fill(v): rows of pixel values, img[y+1][x+1]
QImage_fill(size, v) == [y \in 1..size[2] |-> [x \in 1..size[1] |-> v]]

\* whether the segment from a to b crosses the horizontal ray that leaves the
\* point (cx/2, cy/2) to the right; cy is odd, so no vertex lies on the ray
Crosses(a, b, cx, cy) ==
    LET ax == 2 * a[1]
        ay == 2 * a[2]
        bx == 2 * b[1]
        by == 2 * b[2]
        lhs == (cx - ax) * (by - ay)
        rhs == (cy - ay) * (bx - ax)
    IN /\ (ay > cy) # (by > cy)
       /\ IF by > ay THEN lhs < rhs ELSE lhs > rhs

\* Qt::OddEvenFill of a path, every subpath closed back to its MoveTo: the
\* point is inside when the ray crosses an odd number of segments
Inside(p, cx, cy) ==
    LET Lines == {i \in 2..Len(p) : p[i].type = "LineTo"
                                       /\ Crosses(p[i - 1].pt, p[i].pt, cx, cy)}
        Ends == {i \in 1..Len(p) : i = Len(p) \/ p[i + 1].type = "MoveTo"}
        Start(i) == CHOOSE j \in 1..i :
                        /\ p[j].type = "MoveTo"
                        /\ \A k \in (j + 1)..i : p[k].type # "MoveTo"
        Closings == {i \in Ends : Crosses(p[i].pt, p[Start(i)].pt, cx, cy)}
    IN (Cardinality(Lines) + Cardinality(Closings)) % 2 = 1

\* QPainter.drawPath with NoPen, a white brush and no antialiasing: the pixels
\* whose centre is inside the path become 255
drawPath(img, p) ==
    [y \in 1..Len(img) |->
        [x \in 1..Len(img[y]) |-> IF Inside(p, 2 * x - 1, 2 * y - 1) THEN 255 ELSE img[y][x]]]

\* mutant: export_mask looks at the path, not the point list
export_mask_TestsPath(d, output_path) ==
    IF IsEmpty(path) THEN <<FALSE, d>>
    ELSE <<TRUE, WriteFile(d, output_path, <<"mask", drawPath(QImage_fill(pixmap_item, 0), path)>>)>>

\* AnnotationCanvas.export_mask: <<return value, dataset directory afterwards>>
export_mask(d, output_path) ==
    IF points = <<>> THEN <<FALSE, d>>
    ELSE <<TRUE, WriteFile(d, output_path, <<"mask", drawPath(QImage_fill(pixmap_item, 0), path)>>)>>

\* pointer positions at three corners of the larger image
MaskPositions == {<<0, 0>>, <<3, 0>>, <<0, 2>>}

\* what os.listdir may find in a datasets directory that was there before
ListedFiles == {<<"a", "_", "b">>, <<"a", "_", "c">>, <<"_", "a">>, <<"a", "b">>,
                <<"c", "_", "a", "_", "b">>}

(* ------------------------------- actions -------------------------------- *)
Init ==
    /\ pixmap_item = None
    /\ drawing = FALSE
    /\ path = <<>>
    /\ path_item = NoItem
    /\ points = <<>>
    /\ scale_factor = F_One
    /\ view_scale = F_One
    /\ scene = {}
    /\ current_file = None
    /\ dataset = <<>>
    /\ list_widget = update_dataset_list(DOMAIN dataset)
    /\ message = NoMessage
    /\ event = <<"__init__", 158>>
    /\ wheel_count = 0
    /\ running = TRUE

\* what every handler leaves behind: its name with the last line of its own
\* body it executed, and the dialog it showed
Handled(op, line, msg) ==
    /\ event' = <<op, line>>
    /\ message' = msg

\* mutant: the rebuilt path is closed whatever the drawing state
RedrawnPath_AlwaysClosed(pts, drw) ==
    LET RECURSIVE Lines(_, _)
        Lines(p, rest) == IF rest = <<>> THEN p
                          ELSE Lines(LineTo(p, Head(rest)), Tail(rest))
    IN IF pts = <<>> THEN <<>>
       ELSE LineTo(Lines(MoveTo(<<>>, pts[1]), Tail(pts)), pts[1])

\* AnnotationCanvas._redraw_path: the path rebuilt from a point list
RedrawnPath(pts, drw) ==
    LET RECURSIVE Lines(_, _)
        Lines(p, rest) == IF rest = <<>> THEN p
                          ELSE Lines(LineTo(p, Head(rest)), Tail(rest))
    IN IF pts = <<>> THEN <<>>
       ELSE LET open == Lines(MoveTo(<<>>, pts[1]), Tail(pts))
            IN IF ~drw THEN LineTo(open, pts[1]) ELSE open

\* AnnotationCanvas._redraw_path, on the point list pts
_redraw_path(pts) ==
    LET newpath == RedrawnPath(pts, drawing)
        removed == IF path_item # NoItem THEN RemoveItem(scene, path_item) ELSE scene
    IN /\ path' = newpath
       /\ IF ~IsEmpty(newpath)
          THEN /\ scene' = AddPath(removed, newpath, PenWidth(scale_factor))
               /\ path_item' = NewItem(removed)
          ELSE /\ scene' = removed
               /\ path_item' = path_item

\* MainWindow.load_image with the dialog cancelled
LoadCancelled ==
    /\ running
    /\ Handled("load_image", 164, NoMessage)
    /\ UNCHANGED <<canvas, window, wheel_count, running>>

\* MainWindow.load_image -> AnnotationCanvas.load_image(file_path)
load_image(file_path) ==
    /\ running
    /\ message' = NoMessage
    /\ current_file' = file_path
    /\ pixmap_item' = ImageSize(file_path)
    /\ scene' = {}
    /\ points' = <<>>
    /\ path' = <<>>
    /\ \/ \* path_item is None, or an item the scene no longer held: removeItem is harmless
          /\ path_item = NoItem \/ ~InScene(path_item)
          /\ event' = <<"load_image", 35>>
          /\ path_item' = NoItem
          /\ scale_factor' = F_One
          /\ view_scale' = F_One
          /\ wheel_count' = 0
          /\ running' = TRUE
       \/ \* path_item was deleted by scene.clear(): removeItem on it may go through ...
          /\ path_item # NoItem /\ InScene(path_item)
          /\ event' = <<"load_image", 35>>
          /\ path_item' = NoItem
          /\ scale_factor' = F_One
          /\ view_scale' = F_One
          /\ wheel_count' = 0
          /\ running' = TRUE
       \/ \* ... or end the process at line 32
          /\ path_item # NoItem /\ InScene(path_item)
          /\ event' = <<"load_image", 32>>
          /\ running' = FALSE
          /\ UNCHANGED <<path_item, scale_factor, view_scale, wheel_count>>
    /\ UNCHANGED <<drawing, list_widget, dataset>>

\* mutant: the press handler does not ask whether an image is loaded
mousePressEvent_NoImageCheck(button, pos) ==
    /\ running
    /\ IF button = "LeftButton"
       THEN /\ Handled("mousePressEvent", 45, NoMessage)
            /\ drawing' = TRUE
            /\ path' = MoveTo(path, pos)
            /\ points' = <<pos>>
            /\ scene' = IF path_item # NoItem THEN RemoveItem(scene, path_item) ELSE scene
            /\ path_item' = NoItem
            /\ UNCHANGED <<pixmap_item, scale_factor, view_scale>>
       ELSE /\ Handled("mousePressEvent", 38, NoMessage)
            /\ UNCHANGED canvas
    /\ UNCHANGED <<window, wheel_count, running>>

\* AnnotationCanvas.mousePressEvent
mousePressEvent(button, pos) ==
    /\ running
    /\ IF button = "LeftButton" /\ pixmap_item # None
       THEN /\ Handled("mousePressEvent", 45, NoMessage)
            /\ drawing' = TRUE
            /\ path' = MoveTo(path, pos)
            /\ points' = <<pos>>
            /\ scene' = IF path_item # NoItem THEN RemoveItem(scene, path_item) ELSE scene
            /\ path_item' = NoItem
            /\ UNCHANGED <<pixmap_item, scale_factor, view_scale>>
       ELSE /\ Handled("mousePressEvent", 38, NoMessage)
            /\ UNCHANGED canvas
    /\ UNCHANGED <<window, wheel_count, running>>

\* AnnotationCanvas.mouseMoveEvent
mouseMoveEvent(pos) ==
    /\ running
    /\ IF drawing
       THEN LET removed == IF path_item # NoItem THEN RemoveItem(scene, path_item) ELSE scene
            IN /\ Handled("mouseMoveEvent", 56, NoMessage)
               /\ path' = LineTo(path, pos)
               /\ points' = Append(points, pos)
               /\ scene' = AddPath(removed, path', PenWidth(scale_factor))
               /\ path_item' = NewItem(removed)
               /\ UNCHANGED <<pixmap_item, drawing, scale_factor, view_scale>>
       ELSE /\ Handled("mouseMoveEvent", 49, NoMessage)
            /\ UNCHANGED canvas
    /\ UNCHANGED <<window, wheel_count, running>>

\* AnnotationCanvas.mouseReleaseEvent
mouseReleaseEvent(button) ==
    /\ running
    /\ IF button = "LeftButton" /\ drawing
       THEN /\ drawing' = FALSE
            /\ IF points # <<>>
               THEN LET removed == RemoveItem(scene, path_item)
                    IN /\ Handled("mouseReleaseEvent", 66, NoMessage)
                       /\ path' = LineTo(path, points[1])
                       /\ scene' = AddPath(removed, path', PenWidth(scale_factor))
                       /\ path_item' = NewItem(removed)
               ELSE /\ Handled("mouseReleaseEvent", 62, NoMessage)
                    /\ UNCHANGED <<path, scene, path_item>>
            /\ UNCHANGED <<pixmap_item, points, scale_factor, view_scale>>
       ELSE /\ Handled("mouseReleaseEvent", 60, NoMessage)
            /\ UNCHANGED canvas
    /\ UNCHANGED <<window, wheel_count, running>>

\* mutant: no early return, so pop() on the empty list raises and ends the process
undo_last_NoGuard ==
    /\ running
    /\ IF points = <<>>
       THEN /\ Handled("undo_last", 72, NoMessage)
            /\ running' = FALSE
            /\ UNCHANGED <<canvas, window, wheel_count>>
       ELSE /\ Handled("undo_last", 73, NoMessage)
            /\ points' = SubSeq(points, 1, Len(points) - 1)
            /\ _redraw_path(points')
            /\ UNCHANGED <<pixmap_item, drawing, scale_factor, view_scale>>
            /\ UNCHANGED <<window, wheel_count, running>>

\* AnnotationCanvas.undo_last
undo_last ==
    /\ running
    /\ IF points = <<>>
       THEN /\ Handled("undo_last", 71, NoMessage)
            /\ UNCHANGED canvas
       ELSE /\ Handled("undo_last", 73, NoMessage)
            /\ points' = SubSeq(points, 1, Len(points) - 1)
            /\ _redraw_path(points')
            /\ UNCHANGED <<pixmap_item, drawing, scale_factor, view_scale>>
    /\ UNCHANGED <<window, wheel_count, running>>

\* mutant: the handle is dropped without taking the item out of the scene
clear_annotation_KeepsItem ==
    /\ running
    /\ points' = <<>>
    /\ path' = <<>>
    /\ Handled("clear_annotation", 80, NoMessage)
    /\ path_item' = NoItem
    /\ UNCHANGED <<pixmap_item, drawing, scale_factor, view_scale, scene>>
    /\ UNCHANGED <<window, wheel_count, running>>

\* AnnotationCanvas.clear_annotation
clear_annotation ==
    /\ running
    /\ points' = <<>>
    /\ path' = <<>>
    /\ IF path_item # NoItem
       THEN /\ Handled("clear_annotation", 80, NoMessage)
            /\ scene' = RemoveItem(scene, path_item)
            /\ path_item' = NoItem
       ELSE /\ Handled("clear_annotation", 78, NoMessage)
            /\ UNCHANGED <<scene, path_item>>
    /\ UNCHANGED <<pixmap_item, drawing, scale_factor, view_scale>>
    /\ UNCHANGED <<window, wheel_count, running>>

\* mutant: the wheel handler rebuilds the path from the points to refresh the pen
wheelEvent_Redraws(dy) ==
    /\ running
    /\ Handled("wheelEvent", 105, NoMessage)
    /\ LET factor == IF dy > 0 THEN zoom_in_factor ELSE zoom_out_factor
       IN /\ scale_factor' = FMul(scale_factor, factor)
          /\ view_scale' = FMul(view_scale, factor)
    /\ wheel_count' = wheel_count + 1
    /\ _redraw_path(points)
    /\ UNCHANGED <<pixmap_item, drawing, points>>
    /\ UNCHANGED <<window, running>>

\* AnnotationCanvas.wheelEvent
wheelEvent(dy) ==
    /\ running
    /\ Handled("wheelEvent", 105, NoMessage)
    /\ LET factor == IF dy > 0 THEN zoom_in_factor ELSE zoom_out_factor
       IN /\ scale_factor' = FMul(scale_factor, factor)
          /\ view_scale' = FMul(view_scale, factor)
    /\ wheel_count' = wheel_count + 1
    /\ UNCHANGED <<pixmap_item, drawing, path, path_item, points, scene>>
    /\ UNCHANGED <<window, running>>

\* MainWindow.save_annotation; name and ok are what the label dialog returns
save_annotation(name, ok) ==
    /\ running
    /\ IF current_file = None
       THEN /\ Handled("save_annotation", 171, "No image loaded.")
            /\ UNCHANGED <<dataset, list_widget>>
       ELSE IF ~ok \/ Strip(name) = <<>>
       THEN /\ Handled("save_annotation", 177, "Invalid object name.")
            /\ UNCHANGED <<dataset, list_widget>>
       ELSE LET ext == SplitExt(current_file)
                new_image_name == name \o Str_image \o ext
                copied == WriteFile(dataset, new_image_name, <<"image", current_file>>)
                mask_name == name \o Str_mask_png
                exported == export_mask(copied, mask_name)
            IN /\ dataset' = exported[2]
               /\ IF exported[1]
                  THEN /\ Handled("save_annotation", 189, "Annotation saved")
                       /\ list_widget' = update_dataset_list(DOMAIN dataset')
                  ELSE /\ Handled("save_annotation", 191, "No annotation drawn.")
                       /\ UNCHANGED list_widget
    /\ UNCHANGED <<canvas, current_file, wheel_count, running>>

\* the growth a specification allows: point list, path elements, wheel events
Within(maxPts, maxPath, maxZoom) ==
    /\ Len(points') <= maxPts
    /\ Len(path') <= maxPath
    /\ wheel_count' <= maxZoom

Next ==
    \/ LoadCancelled
    \/ \E f \in ImageFiles : load_image(f)
    \/ \E b \in Buttons, pos \in Positions :
          mousePressEvent(b, pos) /\ Within(MaxPts, MaxPath, MaxZoom)
    \/ \E pos \in Positions : mouseMoveEvent(pos) /\ Within(MaxPts, MaxPath, MaxZoom)
    \/ \E b \in Buttons : mouseReleaseEvent(b) /\ Within(MaxPts, MaxPath, MaxZoom)
    \/ undo_last
    \/ clear_annotation
    \/ \E dy \in WheelDeltas : wheelEvent(dy) /\ Within(MaxPts, MaxPath, MaxZoom)
    \/ \E n \in Names : save_annotation(n, TRUE) /\ Cardinality(DOMAIN dataset') <= MaxFiles
    \/ save_annotation(<<>>, FALSE)

Spec == Init /\ [][Next]_vars

\* zooming: loads, strokes of one segment and up to ZoomMaxZoom wheel events
NextZoom ==
    \/ \E f \in ImageFiles : load_image(f)
    \/ \E pos \in Positions :
          mousePressEvent("LeftButton", pos) /\ Within(ZoomMaxPts, ZoomMaxPath, ZoomMaxZoom)
    \/ \E pos \in Positions :
          mouseMoveEvent(pos) /\ Within(ZoomMaxPts, ZoomMaxPath, ZoomMaxZoom)
    \/ \E dy \in WheelDeltas :
          wheelEvent(dy) /\ Within(ZoomMaxPts, ZoomMaxPath, ZoomMaxZoom)

SpecZoom == Init /\ [][NextZoom]_vars

\* drawing one polygon over three corners and saving it
NextMask ==
    \/ \E f \in ImageFiles : load_image(f) /\ dataset = <<>>
    \/ \E pos \in MaskPositions :
          /\ mousePressEvent("LeftButton", pos) /\ Within(MaskMaxPts, MaskMaxPath, 0)
          /\ dataset = <<>>
    \/ \E pos \in MaskPositions :
          /\ mouseMoveEvent(pos) /\ Within(MaskMaxPts, MaskMaxPath, 0)
          /\ dataset = <<>>
    \/ /\ mouseReleaseEvent("LeftButton") /\ Within(MaskMaxPts, MaskMaxPath, 0)
       /\ dataset = <<>>
    \/ save_annotation(<<"c">>, TRUE)

SpecMask == Init /\ [][NextMask]_vars

\* the label list over any directory: the window opens on a datasets
\* directory holding any of ListedFiles, and polygons of one point are saved
InitList ==
    /\ pixmap_item = None
    /\ drawing = FALSE
    /\ path = <<>>
    /\ path_item = NoItem
    /\ points = <<>>
    /\ scale_factor = F_One
    /\ view_scale = F_One
    /\ scene = {}
    /\ current_file = None
    /\ dataset \in {[f \in S |-> <<"file">>] : S \in SUBSET ListedFiles}
    /\ list_widget = update_dataset_list(DOMAIN dataset)
    /\ message = NoMessage
    /\ event = <<"__init__", 158>>
    /\ wheel_count = 0
    /\ running = TRUE

NextList ==
    \/ \E f \in ImageFiles : load_image(f)
    \/ \E pos \in Positions : mousePressEvent("LeftButton", pos)
    \/ \E n \in Names : save_annotation(n, TRUE)

SpecList == InitList /\ [][NextList]_vars

\* the canvas on its own: every handler of AnnotationCanvas, and the load button
NextCanvas ==
    \/ LoadCancelled
    \/ \E f \in ImageFiles : load_image(f)
    \/ \E b \in Buttons, pos \in Positions :
          mousePressEvent(b, pos) /\ Within(CanvasMaxPts, CanvasMaxPath, CanvasMaxZoom)
    \/ \E pos \in Positions :
          mouseMoveEvent(pos) /\ Within(CanvasMaxPts, CanvasMaxPath, CanvasMaxZoom)
    \/ \E b \in Buttons :
          mouseReleaseEvent(b) /\ Within(CanvasMaxPts, CanvasMaxPath, CanvasMaxZoom)
    \/ undo_last
    \/ clear_annotation
    \/ \E dy \in WheelDeltas :
          wheelEvent(dy) /\ Within(CanvasMaxPts, CanvasMaxPath, CanvasMaxZoom)

SpecCanvas == Init /\ [][NextCanvas]_vars

(* ------------------------- vocabulary of the claims --------------------- *)
\* a label that is empty or whitespace only
Blank(n) == \A i \in 1..Len(n) : n[i] \in Whitespace

\* a path item is on display
Displayed == scene # {}

\* a sequence with its runs of equal neighbours collapsed (zero-length segments dropped)
RECURSIVE Collapse(_)
Collapse(q) ==
    IF Len(q) <= 1 THEN q
    ELSE IF q[1] = q[2] THEN Collapse(Tail(q))
    ELSE <<q[1]>> \o Collapse(Tail(q))

\* the polygon the spec derives from a point sequence: through the points in
\* order, back to the first one once drawing has ended
PolygonOf(pts, drw) ==
    LET v == Collapse(IF drw \/ pts = <<>> THEN pts ELSE Append(pts, pts[1]))
    IN [i \in 1..Len(v) |-> IF i = 1 THEN MoveToElement(v[i]) ELSE LineToElement(v[i])]

(* -------------------------------- claims -------------------------------- *)
\* C1: the dataset directory holds <label>_image<ext> for a label if and only
\* if it holds <label>_mask.png for that label.
C1_ImageIffMask ==
    \A n \in Names :
        (\E f \in ImageFiles : (n \o Str_image \o SplitExt(f)) \in DOMAIN dataset)
            <=> ((n \o Str_mask_png) \in DOMAIN dataset)

\* C2: a left pointer-down with an image loaded leaves the point sequence
\* equal to [pos], no path on display, and a polygon path holding nothing of
\* any earlier stroke.
C2_PressDiscardsPath ==
    [][\A pos \in Positions :
          (pixmap_item # None /\ mousePressEvent("LeftButton", pos))
              => /\ points' = <<pos>>
                 /\ ~Displayed'
                 /\ path' = <<MoveToElement(pos)>>]_vars

\* C3: in every reachable state the polygon path is the polygon derived from
\* the point sequence and the drawing state: empty for an empty sequence, else
\* from the first point through the points in order, closed exactly when not
\* drawing.
C3_PathDerivedFromPoints ==
    IF points = <<>> THEN IsEmpty(path) ELSE path = PolygonOf(points, drawing)

\* C4: a save with no image loaded, a blank label or a declined dialog shows a
\* warning and leaves the dataset directory and the label list as they were.
C4_RejectedSaveWritesNothing ==
    [][\A n \in Names, ok \in BOOLEAN :
          (save_annotation(n, ok) /\ (current_file = None \/ ~ok \/ Blank(n)))
              => /\ message' \in {"No image loaded.", "Invalid object name."}
                 /\ dataset' = dataset
                 /\ list_widget' = list_widget]_vars

C4_Witness ==
    /\ event = <<"save_annotation", 177>>
    /\ dataset # <<>>
    /\ list_widget # <<>>

\* C5: after a successful save under label L the label list has L among its items.
C5_ListShowsLabel ==
    [][\A n \in Names :
          (save_annotation(n, TRUE) /\ message' = "Annotation saved")
              => \E i \in 1..Len(list_widget') : list_widget'[i] = n]_vars

\* C6: export_mask fails and writes nothing exactly when the point sequence is
\* empty; with a non-empty sequence it writes the mask and reports success.
C6_ExportFailsIffNoPoints ==
    [][\A n \in Names :
          (save_annotation(n, TRUE) /\ current_file # None /\ ~Blank(n))
              => LET mask_name == n \o Str_mask_png
                 IN IF points = <<>>
                    THEN /\ message' = "No annotation drawn."
                         /\ (mask_name \in DOMAIN dataset') = (mask_name \in DOMAIN dataset)
                         /\ mask_name \in DOMAIN dataset => dataset'[mask_name] = dataset[mask_name]
                    ELSE /\ message' = "Annotation saved"
                         /\ mask_name \in DOMAIN dataset'
                         /\ dataset'[mask_name] = <<"mask", drawPath(QImage_fill(pixmap_item, 0), path)>>]_vars

C6_Witness ==
    /\ event = <<"save_annotation", 189>>
    /\ points # <<>>
    /\ IsEmpty(path)
    /\ \E f \in DOMAIN dataset : dataset[f][1] = "mask"

\* C7: whenever a path is on display its stroke width is 2 divided by the
\* current scale factor.
C7_StrokeFollowsScale ==
    \A it \in scene : it.width = PenWidth(scale_factor)

\* C8: undo on a non-empty point sequence drops exactly the last point and
\* leaves the polygon of the remaining points, closed if and only if the
\* canvas is not drawing.
C8_UndoDropsLast ==
    [][(event' = <<"undo_last", 73>> /\ points # <<>>)
          => /\ points' = SubSeq(points, 1, Len(points) - 1)
             /\ drawing' = drawing
             /\ path' = PolygonOf(points', drawing)]_vars

C8_Witness ==
    /\ event = <<"undo_last", 73>>
    /\ drawing
    /\ Len(points) >= 2
    /\ points[Len(points)] # points[1]

\* C9: undo on an empty point sequence changes nothing: not the sequence, the
\* path, the displayed path, the drawing state or the scale factor, and the
\* program carries on.
C9_UndoOnEmptyIsNoOp ==
    [][(event'[1] = "undo_last" /\ points = <<>>)
          => UNCHANGED <<points, path, path_item, scene, drawing, scale_factor,
                         view_scale, running>>]_vars

C9_Witness ==
    /\ event = <<"undo_last", 71>>
    /\ drawing
    /\ path_item # NoItem

\* C10: clear leaves an empty point sequence, an empty polygon path and no
\* displayed path, and keeps the drawing state.
C10_ClearEmptiesCanvas ==
    [][event'[1] = "clear_annotation"
          => /\ points' = <<>>
             /\ IsEmpty(path')
             /\ ~Displayed'
             /\ path_item' = NoItem
             /\ drawing' = drawing]_vars

C10_Witness ==
    /\ event = <<"clear_annotation", 80>>
    /\ drawing

\* C11: the drawing state becomes Drawing only by a left pointer-down with an
\* image loaded (without an image the press leaves it Idle and the points
\* alone), becomes Idle only by a pointer-up, a drag appends a point only in
\* Drawing, and undo, clear and zoom never change it.
C11_DrawingStateMachine ==
    [][/\ (~drawing /\ drawing') => (event' = <<"mousePressEvent", 45>> /\ pixmap_item # None)
       /\ (drawing /\ ~drawing') => event'[1] = "mouseReleaseEvent"
       /\ (event'[1] = "mousePressEvent" /\ pixmap_item = None)
             => (~drawing' /\ points' = points)
       /\ (event'[1] = "mouseMoveEvent" /\ points' # points)
             => (drawing /\ \E pos \in Positions : points' = Append(points, pos))
       /\ (event'[1] = "mouseMoveEvent" /\ ~drawing) => points' = points
       /\ event'[1] \in {"undo_last", "clear_annotation", "wheelEvent"}
             => drawing' = drawing]_vars

C11_Witness ==
    /\ event = <<"mouseReleaseEvent", 66>>
    /\ ~drawing
    /\ Len(points) >= 2

\* C12: a load, from any reachable state, leaves an empty point sequence, an
\* empty polygon path, no displayed path and scale factor 1.0, with the
\* chosen file recorded as the current source.
C12_LoadResetsCanvas ==
    [][\A f \in ImageFiles :
          load_image(f)
              => /\ points' = <<>>
                 /\ IsEmpty(path')
                 /\ ~Displayed'
                 /\ scale_factor' = F_One
                 /\ view_scale' = F_One
                 /\ current_file' = f]_vars

\* C13: a zoom leaves the point sequence, the polygon path, the displayed
\* geometry, the loaded image and the drawing state as they were.
C13_ZoomChangesOnlyScale ==
    [][event'[1] = "wheelEvent"
          => /\ UNCHANGED <<points, path, pixmap_item, drawing, current_file>>
             /\ {it.path : it \in scene'} = {it.path : it \in scene}]_vars

C13_Witness ==
    /\ event[1] = "wheelEvent"
    /\ drawing
    /\ Len(points) >= 2
    /\ scale_factor # F_One

\* exact integers of 6 limbs, little-endian, for comparing a double with a
\* rational power of 5/4
BigTimes(x, c) ==
    LET l1 == x[1] * c
        l2 == x[2] * c + (l1 \div LimbBase)
        l3 == x[3] * c + (l2 \div LimbBase)
        l4 == x[4] * c + (l3 \div LimbBase)
        l5 == x[5] * c + (l4 \div LimbBase)
        l6 == x[6] * c + (l5 \div LimbBase)
    IN <<l1 % LimbBase, l2 % LimbBase, l3 % LimbBase, l4 % LimbBase, l5 % LimbBase, l6>>

RECURSIVE BigTimesPow(_, _, _)
BigTimesPow(x, c, k) == IF k = 0 THEN x ELSE BigTimesPow(BigTimes(x, c), c, k - 1)

BigAdd(x, y) ==
    LET l1 == x[1] + y[1]
        l2 == x[2] + y[2] + (l1 \div LimbBase)
        l3 == x[3] + y[3] + (l2 \div LimbBase)
        l4 == x[4] + y[4] + (l3 \div LimbBase)
        l5 == x[5] + y[5] + (l4 \div LimbBase)
        l6 == x[6] + y[6] + (l5 \div LimbBase)
    IN <<l1 % LimbBase, l2 % LimbBase, l3 % LimbBase, l4 % LimbBase, l5 % LimbBase, l6>>

BigGeq(x, y) ==
    x = y \/ \E j \in 1..6 : x[j] > y[j] /\ \A i \in (j + 1)..6 : x[i] = y[i]

BigPow2(k) == [j \in 1..6 |-> IF j = (k \div 14) + 1 THEN Pow2(k % 14) ELSE 0]

\* |s - (5/4)^n| <= h/2 units in the last place of the double s
WithinHalfUlps(s, n, h) ==
    LET k == IF n >= 0 THEN n ELSE -n
        den == IF n >= 0 THEN 4 ELSE 5
        num == IF n >= 0 THEN 5 ELSE 4
        A == BigTimesPow(BigTimes(s.m \o <<0, 0>>, 2), den, k)
        B == BigTimesPow(BigTimes(BigPow2(-s.e), 2), num, k)
        C == BigTimesPow(<<h, 0, 0, 0, 0, 0>>, den, k)
    IN BigGeq(BigAdd(B, C), A) /\ BigGeq(BigAdd(A, C), B)

\* the next double above a positive double
NextUp(a) ==
    LET q == IncLimbs(a.m)
    IN IF q[4] >= 2048 THEN [m |-> <<0, 0, 0, 1024>>, e |-> a.e + 1]
       ELSE [m |-> q, e |-> a.e]

WithinOneUlp(a, b) == a = b \/ NextUp(a) = b \/ NextUp(b) = a

Positive(a) == a.m[4] >= 1024

\* the zoom opposite to a wheel delta
Opposite(dy) == IF dy > 0 THEN zoom_out_factor ELSE zoom_in_factor

\* C14 as stated: after i zoom-ins and o zoom-outs since the last load the
\* scale factor equals 1.25^i * 0.8^o (as the nearest double), it is positive,
\* and a zoom followed by the opposite zoom restores the scale factor it
\* started from.
C14_ZoomExactlyReversible ==
    [][\A dy \in WheelDeltas :
          wheelEvent(dy)
              => /\ \E n \in (-wheel_count)..wheel_count :
                       /\ WithinHalfUlps(scale_factor, n, 1)
                       /\ WithinHalfUlps(scale_factor', IF dy > 0 THEN n + 1 ELSE n - 1, 1)
                 /\ Positive(scale_factor')
                 /\ FMul(scale_factor', Opposite(dy)) = scale_factor]_vars

\* C14, amended: after i zoom-ins and o zoom-outs since the last load the
\* scale factor equals 1.25^i * 0.8^o to within 2(i+o) units in the last
\* place of the double, it is positive, and a zoom followed by the opposite
\* zoom restores the scale factor to within one unit in the last place, and
\* exactly when it started from 1.0.
C14_ZoomReversibleUpToRounding ==
    [][\A dy \in WheelDeltas :
          wheelEvent(dy)
              => /\ \E n \in (-wheel_count)..wheel_count :
                       /\ WithinHalfUlps(scale_factor, n, 4 * wheel_count)
                       /\ WithinHalfUlps(scale_factor', IF dy > 0 THEN n + 1 ELSE n - 1,
                                         4 * wheel_count')
                 /\ Positive(scale_factor')
                 /\ WithinOneUlp(FMul(scale_factor', Opposite(dy)), scale_factor)
                 /\ scale_factor = F_One
                       => FMul(scale_factor', Opposite(dy)) = scale_factor]_vars

C14_Witness ==
    /\ event[1] = "wheelEvent"
    /\ wheel_count = 3
    /\ scale_factor # zoom_out_factor
    /\ WithinOneUlp(scale_factor, zoom_out_factor)

\* lexicographic order of two strings, by character code
LexLess(s, t) ==
    \E i \in 1..(Len(t)) :
        /\ \A j \in 1..(i - 1) : j <= Len(s) /\ s[j] = t[j]
        /\ (i > Len(s) \/ Ord(s[i]) < Ord(t[i]))

\* the parts before the first underscore of the names that have one
FirstPrefixes(files) ==
    UNION {{SubSeq(f, 1, k - 1) :
               k \in {k \in 1..Len(f) : f[k] = "_" /\ \A j \in 1..(k - 1) : f[j] # "_"}} :
           f \in files}

IsLabelList(l, files) ==
    /\ \A i \in 1..Len(l) : \A j \in 1..Len(l) : i < j => LexLess(l[i], l[j])
    /\ {l[i] : i \in 1..Len(l)} = FirstPrefixes(files)

\* C15: whenever the label list is refreshed, whatever the directory holds, it
\* shows exactly the distinct parts before the first underscore of the names
\* that contain one, each once, in lexicographic order.
C15_ListIsSortedPrefixes ==
    (event[1] = "__init__" \/ event = <<"save_annotation", 189>>)
        => IsLabelList(list_widget, DOMAIN dataset)

C15_Witness ==
    /\ event = <<"save_annotation", 189>>
    /\ Len(list_widget) >= 3
    /\ \E f \in DOMAIN dataset : ~HasUnderscore(f)
    /\ \E f, g \in DOMAIN dataset : f # g /\ FirstPrefixes({f}) = FirstPrefixes({g})
                                              /\ FirstPrefixes({f}) # {}

\* C18: after every completed save_annotation, successful or rejected, the
\* label list is the sorted set of first-underscore prefixes of the files in
\* the dataset directory.
C18_ListFreshAfterSave ==
    [][event'[1] = "save_annotation" => IsLabelList(list_widget', DOMAIN dataset')]_vars

\* C16: for a point sequence of a pointer-down followed by at least three
\* distinct drag positions, export_mask writes a raster with the width and
\* height of the loaded source image whose pixels are all 0 or 255.
C16_MaskHasImageSize ==
    [][(/\ save_annotation(<<"c">>, TRUE)
        /\ current_file # None
        /\ Len(points) >= 4
        /\ Cardinality({points[i] : i \in 2..Len(points)}) >= 3)
          => LET mask_img == dataset'[<<"c">> \o Str_mask_png][2]
             IN /\ Len(mask_img) = ImageSize(current_file)[2]
                /\ \A y \in 1..Len(mask_img) :
                      /\ Len(mask_img[y]) = ImageSize(current_file)[1]
                      /\ \A x \in 1..Len(mask_img[y]) : mask_img[y][x] \in {0, 255}]_vars

C16_Witness ==
    /\ event = <<"save_annotation", 189>>
    /\ Len(points) >= 4
    /\ Cardinality({points[i] : i \in 2..Len(points)}) >= 3
    /\ ImageSize(current_file) = <<3, 2>>
    /\ LET mask_img == dataset[<<"c">> \o Str_mask_png][2]
       IN /\ \E y \in 1..2, x \in 1..3 : mask_img[y][x] = 255
          /\ \E y \in 1..2, x \in 1..3 : mask_img[y][x] = 0

\* C17: a load in the Drawing state leaves the canvas Idle, so that a drag
\* without a new pointer-down appends no point.
C17_LoadEndsDrawing ==
    [][\A f \in ImageFiles : load_image(f) => ~drawing']_vars

\* C19: the path item handle is always empty or refers to an item that is in
\* the scene, and every removeItem of load, press, drag, release, undo and
\* clear is given an item that is in the scene: never the empty handle, an
\* item already removed, or an item destroyed by the scene.clear() of a load.
C19_HandleValid ==
    [][/\ (path_item = NoItem \/ InScene(path_item))'
       /\ event' = <<"mouseReleaseEvent", 66>> => InScene(path_item)
       /\ event' \in {<<"mousePressEvent", 45>>, <<"mouseMoveEvent", 56>>,
                      <<"undo_last", 73>>, <<"clear_annotation", 80>>}
             => (path_item = NoItem \/ InScene(path_item))
       /\ (event'[1] = "load_image" /\ event'[2] # 164) => path_item = NoItem]_vars

====
